---- MODULE Spec2Model ----
(***************************************************************************)
(* ApiQlient: a declarative HTTP client.  The model covers the client     *)
(* context manager (ApiQlient.__enter__/__exit__/__aenter__/__aexit__),    *)
(* the verb methods installed on it, the request dispatcher (_route), the *)
(* synchronous and asynchronous request wrappers (Request, AsyncRequest),  *)
(* the response's object() accessor (BaseResponse._from_dict) and the      *)
(* router (ClientRouter: the declaration decorators and include_router).   *)
(*                                                                         *)
(* The transport libraries, the routing library and the deserialization   *)
(* libraries are the environment: a transport call returns a response or  *)
(* raises, a route classifies a request as FULL, PARTIAL or NONE.         *)
(***************************************************************************)
EXTENDS Integers, Sequences, FiniteSets, TLC

VARIABLES
    scheme,       \* ApiQlient.scheme, captured by __init__
    libs,         \* which optional modules imported: munch, dataclass_wizard, pydantic
    routes,       \* ApiQlient.router.routes, in registration order
    async_scope,  \* ApiQlient.async_scope: "None", "True" or "False"
    verbs,        \* what each verb attribute of the client currently is
    client,       \* ApiQlient.client: 0 while the attribute is unset, else a resource id
    resources,    \* every transport resource opened so far: its class and whether it is open
    ctx,          \* the caller's position: "out", or the mode of the with-block it is in
    wrappers,     \* the request wrappers created by dispatch
    calls,        \* the response() invocations made on the wrappers
    outcome,      \* what the last operation of the caller returned or raised
    routers,      \* the ClientRouter objects other than the client's own router
    merge         \* the last call made on a router, and how far its loop has come

vars == <<scheme, libs, routes, async_scope, verbs, client, resources, ctx,
          wrappers, calls, outcome, routers, merge>>

(***************************************************************************)
(* Bounds of the model.                                                    *)
(***************************************************************************)
MaxRoutes == 2       \* routes declared or handed to the routers' constructors
MaxActivations == 2  \* context entries of one client
MaxHeld == 1         \* request wrappers dispatched, where one at a time is looked at
MaxWrappers == 2     \* request wrappers dispatched, where a batch is gathered
MaxCalls == 2        \* response() invocations
MaxRouters == 1      \* routers constructed besides the client's own
MaxIncludes == 1     \* include_router calls
MaxTable == 3        \* routes in the source and the target when include_router is called

(***************************************************************************)
(* Program constants.                                                      *)
(***************************************************************************)
\* ApiQlient.methods
methods == <<"get", "head", "post", "put", "delete", "connect", "options", "trace", "patch">>

MethodNames == {methods[i] : i \in 1..Len(methods)}

\* str.upper() on the verb names
upper(m) ==
    CASE m = "get" -> "GET"
      [] m = "head" -> "HEAD"
      [] m = "post" -> "POST"
      [] m = "put" -> "PUT"
      [] m = "delete" -> "DELETE"
      [] m = "connect" -> "CONNECT"
      [] m = "options" -> "OPTIONS"
      [] m = "trace" -> "TRACE"
      [] m = "patch" -> "PATCH"
      [] OTHER -> m

\* the verb-named request methods that aiohttp.ClientSession defines; it has
\* no "connect" and no "trace", so getattr(ClientSession, name) fails for them
SessionVerbs == {"get", "options", "head", "post", "put", "patch", "delete"}

Schemes == {"http", "https", "other"}

PoolClasses == {"HTTPConnectionPool", "HTTPSConnectionPool"}

(***************************************************************************)
(* Inputs.                                                                 *)
(***************************************************************************)
\* request paths and route path patterns, as their "/"-separated segments
Paths == {<<"items", "1">>, <<"items", "2">>, <<"unknown">>}

Patterns == {<<"items", "{id}">>, <<"items", "1">>}

\* handler types a route can carry: a dataclass_wizard.JSONSerializable
\* subclass, a pydantic.BaseModel subclass, a plain class
Handlers == {"Dcw", "Pyd", "Plain"}

\* keyword options of a verb call, by keyword name
Options == {{"headers"}, {"url"}}

\* response bodies: JSON the handler accepts, JSON it rejects, not JSON
Bodies == {"good", "bad", "notjson"}

LibSets == [munch : BOOLEAN, dataclass_wizard : BOOLEAN, pydantic : BOOLEAN]

\* a handler type can only be declared when the library it derives from imports
HandlerExists(l, h) ==
    CASE h = "Dcw" -> l.dataclass_wizard
      [] h = "Pyd" -> l.pydantic
      [] OTHER -> TRUE

(***************************************************************************)
(* Routes.                                                                 *)
(***************************************************************************)
\* starlette Route.__init__ as reached from ClientRoute.__init__: the methods
\* are stored as a set, with HEAD added when GET is among them
ClientRoute(path, endpoint, ms, list_of) ==
    [path |-> path,
     endpoint |-> endpoint,
     methods |-> ms \cup (IF "GET" \in ms THEN {"HEAD"} ELSE {}),
     list_of |-> list_of]

\* the compiled path pattern: same number of segments, a {param} segment
\* matches any segment, a literal segment only itself
PathMatches(pattern, path) ==
    /\ Len(pattern) = Len(path)
    /\ \A i \in 1..Len(pattern) : pattern[i] = "{id}" \/ pattern[i] = path[i]

\* route.matches(scope): NONE when the path does not match, PARTIAL when the
\* path matches and the method is not among the route's, FULL otherwise
matches(route, method, path) ==
    IF ~PathMatches(route.path, path) THEN "NONE"
    ELSE IF method \notin route.methods THEN "PARTIAL"
    ELSE "FULL"

\* the loop of _path: the routes of one match class, in registration order
RECURSIVE Collect(_, _, _, _)
Collect(rs, method, path, class) ==
    IF rs = <<>> THEN <<>>
    ELSE LET rest == Collect(Tail(rs), method, path, class)
         IN IF matches(Head(rs), method, path) = class
            THEN <<Head(rs)>> \o rest
            ELSE rest

NoRoute == [path |-> <<>>, endpoint |-> "None", methods |-> {}, list_of |-> FALSE]

\* a plausible slip: the first route that matches at all, whatever its class
RECURSIVE _path_any(_, _, _)
_path_any(rs, method, path) ==
    IF rs = <<>> THEN NoRoute
    ELSE IF matches(Head(rs), method, path) # "NONE" THEN Head(rs)
    ELSE _path_any(Tail(rs), method, path)

\* _route._path: the first FULL match, else the first PARTIAL match, else None
\* (NoRoute, whose endpoint is None)
_path(rs, method, path) ==
    LET full == Collect(rs, method, path, "FULL")
        partial == Collect(rs, method, path, "PARTIAL")
    IN IF full # <<>> THEN full[1]
       ELSE IF partial # <<>> THEN partial[1]
       ELSE NoRoute

(***************************************************************************)
(* Object parsing.                                                         *)
(***************************************************************************)
Ret(v) == [kind |-> "ret", val |-> v, exc |-> "-", msg |-> "-"]

Raise(e, m) == [kind |-> "raise", val |-> "-", exc |-> e, msg |-> m]

\* what building a value from the parsed mapping does: the builder that ran,
\* or the exception it raised on a mapping the handler rejects
Build(builder, data) ==
    IF data = "good" \/ builder = "munchify" THEN Ret(builder)
    ELSE CASE builder = "from_dict" -> Raise("ParseError", "-")
           [] builder = "parse_obj" -> Raise("ValidationError", "-")
           [] OTHER -> Raise("TypeError", "-")

\* exception classes that can be constructed from one message string
MessageOnly == {"TypeError", "ValueError"}

\* raise type(exc)(f"Error trying to retrieve {self.url}: [{exc}]") from exc
Reraise(r) ==
    IF r.exc \in MessageOnly THEN Raise(r.exc, "Error trying to retrieve url")
    ELSE Raise("TypeError", "exception constructor")

\* a plausible slip: the generic fallback is tried only when a handler is bound
Attempt_typed(l, data, cls) ==
    IF cls # "None" /\ (l.dataclass_wizard \/ l.pydantic)
    THEN IF l.dataclass_wizard /\ cls = "Dcw" THEN Build("from_dict", data)
         ELSE IF l.pydantic /\ cls = "Pyd" THEN Build("parse_obj", data)
         ELSE Build("cls", data)
    ELSE IF cls # "None" /\ l.munch THEN Build("munchify", data)
    ELSE Ret("fallthrough")

\* the guarded block of _from_dict: the handler's from_dict, its parse_obj or
\* its constructor when a handler is bound and dataclass_wizard or pydantic is
\* imported, else munchify when munch is imported, else falling out of the block
Attempt(l, data, cls) ==
    IF cls # "None" /\ (l.dataclass_wizard \/ l.pydantic)
    THEN IF l.dataclass_wizard /\ cls = "Dcw" THEN Build("from_dict", data)
         ELSE IF l.pydantic /\ cls = "Pyd" THEN Build("parse_obj", data)
         ELSE Build("cls", data)
    ELSE IF l.munch THEN Build("munchify", data)
    ELSE Ret("fallthrough")

\* BaseResponse._from_dict, l the imported optional libraries
_from_dict(l, data, cls, none_error) ==
    LET attempt == Attempt(l, data, cls)
    IN IF attempt.kind = "raise"
       THEN IF none_error THEN Ret("None") ELSE Reraise(attempt)
       ELSE IF attempt.val = "fallthrough"
            THEN Raise("ValueError", "munch is not installed")
            ELSE attempt

\* Response.object / Response._object: json() is evaluated as an argument, before
\* _from_dict is entered
object(l, response, none_error) ==
    IF response.body = "notjson" THEN Raise("JSONDecodeError", "-")
    ELSE _from_dict(l, response.body, response.cls, none_error)

(***************************************************************************)
(* State after construction.                                               *)
(***************************************************************************)
NoResponse == [owner |-> 0, id |-> 0, body |-> "-", cls |-> "-"]

\* which response object a value is: the wrapper whose transport call
\* produced it, and which of that wrapper's transport calls
Ident(r) == [owner |-> r.owner, id |-> r.id]

NoRet == [owner |-> 0, id |-> 0]

NoRequest == [session |-> 0, st |-> "-", result |-> "-", awaits |-> 0]

NoOutcome ==
    [op |-> "-", arg |-> "-", on |-> 0, kind |-> "-", val |-> "-", exc |-> "-", msg |-> "-"]

\* no call was made on a router yet
NoMerge ==
    [op |-> "-", pc |-> "-", target |-> 0, source |-> 0, prefix |-> <<>>, i |-> 0,
     before |-> <<>>, n |-> 0]

Out(op, arg, on, r) ==
    [op |-> op, arg |-> arg, on |-> on,
     kind |-> r.kind, val |-> r.val, exc |-> r.exc, msg |-> r.msg]

\* the routes that the router's decorators for the methods ms declare on the
\* patterns pats for the handlers hs
Declarable(pats, hs, ms) ==
    {ClientRoute(p, h, {m}, FALSE) : p \in pats, h \in hs, m \in ms}

\* ApiQlient.__init__, followed by the route declarations made at import time
InitWith(schemes, libsets, tables) ==
    /\ scheme \in schemes
    /\ libs \in libsets
    /\ routes \in tables
    /\ \A i \in 1..Len(routes) : HandlerExists(libs, routes[i].endpoint)
    /\ async_scope = "None"
    /\ verbs = [m \in MethodNames |-> "class"]
    /\ client = 0
    /\ resources = <<>>
    /\ ctx = "out"
    /\ wrappers = <<>>
    /\ calls = <<>>
    /\ outcome = NoOutcome
    /\ routers = <<>>
    /\ merge = NoMerge

(***************************************************************************)
(* The client context manager.                                             *)
(***************************************************************************)
\* ApiQlient._make_context
_make_context(mode) ==
    /\ async_scope' = mode
    /\ verbs' = [m \in MethodNames |-> "dispatch"]

\* ApiQlient._remove_context
_remove_context ==
    /\ async_scope' = "None"
    /\ verbs' = [m \in MethodNames |-> "stub"]

Open(class) == Append(resources, [class |-> class, open |-> TRUE])

Close(rid) == [resources EXCEPT ![rid].open = FALSE]

\* ApiQlient.__enter__
Enter(cap) ==
    /\ ctx = "out"
    /\ Len(resources) < cap
    /\ _make_context("False")
    /\ IF scheme = "http"
       THEN resources' = Open("HTTPConnectionPool") /\ client' = Len(resources) + 1
       ELSE IF scheme = "https"
       THEN resources' = Open("HTTPSConnectionPool") /\ client' = Len(resources) + 1
       ELSE UNCHANGED <<resources, client>>
    /\ ctx' = "sync"
    /\ outcome' = Out("__enter__", "-", 0, Ret("self"))
    /\ UNCHANGED <<routers, merge, scheme, libs, routes, wrappers, calls>>

\* ApiQlient.__exit__; the with-block is left whether or not it raises
Exit ==
    /\ ctx = "sync"
    /\ ctx' = "out"
    /\ IF client = 0
       THEN /\ outcome' = Out("__exit__", "-", 0, Raise("AttributeError", "client"))
            /\ UNCHANGED <<resources, async_scope, verbs>>
       ELSE IF resources[client].class \notin PoolClasses
       THEN /\ outcome' = Out("__exit__", "-", 0, Raise("AssertionError", "-"))
            /\ UNCHANGED <<resources, async_scope, verbs>>
       ELSE /\ resources' = Close(client)
            /\ _remove_context
            /\ outcome' = Out("__exit__", "-", 0, Ret("None"))
    /\ UNCHANGED <<routers, merge, scheme, libs, routes, client, wrappers, calls>>

\* ApiQlient.__aenter__
AEnter(cap) ==
    /\ ctx = "out"
    /\ Len(resources) < cap
    /\ _make_context("True")
    /\ resources' = Open("ClientSession")
    /\ client' = Len(resources) + 1
    /\ ctx' = "async"
    /\ outcome' = Out("__aenter__", "-", 0, Ret("self"))
    /\ UNCHANGED <<routers, merge, scheme, libs, routes, wrappers, calls>>

\* ApiQlient.__aexit__
AExit ==
    /\ ctx = "async"
    /\ ctx' = "out"
    /\ IF resources[client].class # "ClientSession"
       THEN /\ outcome' = Out("__aexit__", "-", 0, Raise("AssertionError", "-"))
            /\ UNCHANGED <<resources, async_scope, verbs>>
       ELSE /\ resources' = Close(client)
            /\ _remove_context
            /\ outcome' = Out("__aexit__", "-", 0, Ret("None"))
    /\ UNCHANGED <<routers, merge, scheme, libs, routes, client, wrappers, calls>>

(***************************************************************************)
(* The verb methods and the request dispatcher.                            *)
(***************************************************************************)
\* BaseRequest.__init__; "at" records the resource that is the client's at
\* dispatch, "sent" the transport calls made for the wrapper
NewWrapper(kind, cls, m, path, kw) ==
    [kind |-> kind, cls |-> cls, _method |-> m, _url |-> path, _kwargs |-> kw,
     _request |-> NoRequest, _response |-> NoResponse, sent |-> <<>>,
     at |-> client]

Made(w) == [kind |-> "ret", val |-> w.kind, exc |-> "-", msg |-> "-", wrapper |-> w]

Failed(e, m) ==
    [kind |-> "raise", val |-> "-", exc |-> e, msg |-> m,
     wrapper |-> NewWrapper("-", "-", "-", <<>>, {})]

\* Request.__init__: type(client.client) needs the client attribute
Request(cls, m, path, kw) ==
    IF client = 0 THEN Failed("AttributeError", "client")
    ELSE Made(NewWrapper("Request", cls, m, path, kw))

\* a plausible slip: the request is sent when the wrapper is made
AsyncRequest_eager(cls, m, path, kw) ==
    IF m \notin SessionVerbs THEN Failed("AttributeError", m)
    ELSE IF client = 0 THEN Failed("AttributeError", "client")
    ELSE IF resources[client].class # "ClientSession" THEN Failed("AssertionError", "-")
    ELSE Made([NewWrapper("AsyncRequest", cls, m, path, kw) EXCEPT
                  !._request = [session |-> client, st |-> "running",
                                result |-> "-", awaits |-> 0],
                  !.sent = <<[on |-> client, ok |-> FALSE]>>])

\* AsyncRequest.__init__: the ClientSession method named after the verb is
\* looked up and called, which creates the pending request on the session
AsyncRequest(cls, m, path, kw) ==
    IF m \notin SessionVerbs THEN Failed("AttributeError", m)
    ELSE IF client = 0 THEN Failed("AttributeError", "client")
    ELSE IF resources[client].class # "ClientSession" THEN Failed("AssertionError", "-")
    ELSE Made([NewWrapper("AsyncRequest", cls, m, path, kw) EXCEPT
                  !._request = [session |-> client, st |-> "pending",
                                result |-> "-", awaits |-> 0]])

\* ApiQlient._route, reached through the callable that _make_context installs
\* (func(method, path, **kwargs)): a keyword option named like a parameter of
\* one of the calls on the way clashes with it
_route(path, m, kw) ==
    IF kw \cap {"method", "path", "dataclass", "client", "url"} # {}
    THEN Failed("TypeError", "multiple values")
    ELSE LET _route_ == _path(routes, upper(m), path)
         IN IF async_scope # "True"
            THEN Request(_route_.endpoint, m, path, kw)
            ELSE AsyncRequest(_route_.endpoint, m, path, kw)

\* a plausible slip: the class-level verb methods raise what the stubs raise
VerbCall_stub(m, path, kw) ==
    IF verbs[m] = "dispatch" THEN _route(path, m, kw)
    ELSE Failed("NotImplementedError", "Client not in context")

\* what calling client.<m>(path, **kw) does, by what the attribute currently is
VerbCall(m, path, kw) ==
    CASE verbs[m] = "class" -> Failed("NotImplementedError", "When defining paths use router")
      [] verbs[m] = "stub" -> Failed("NotImplementedError", "Client not in context")
      [] OTHER -> _route(path, m, kw)

\* the caller invokes a verb method of the client
Verb(m, path, kw, cap) ==
    LET r == VerbCall(m, path, kw)
    IN /\ IF r.kind = "ret"
          THEN /\ Len(wrappers) < cap
               /\ wrappers' = Append(wrappers, r.wrapper)
          ELSE UNCHANGED wrappers
       /\ outcome' = Out("verb", m, IF r.kind = "ret" THEN Len(wrappers) + 1 ELSE 0, r)
       /\ UNCHANGED <<routers, merge, scheme, libs, routes, async_scope, verbs, client, resources,
                      ctx, calls>>

(***************************************************************************)
(* The synchronous request wrapper.                                        *)
(***************************************************************************)
Call(w, g, pc, ret, exc) ==
    [w |-> w, g |-> g,
     after |-> \A c \in 1..Len(calls) : calls[c].w = w => calls[c].pc = "done",
     pc |-> pc, ret |-> ret, exc |-> exc]

NextGroup == Len(calls) + 1

\* what the transport does with a request: a response with some body, or an
\* error; on a closed resource always an error
Transport(rid, B) == IF resources[rid].open THEN B \cup {"raise"} ELSE {"raise"}

\* a plausible slip: the cache is an attribute of the class, shared by the wrappers
Cached_shared(w) ==
    LET have == {v \in 1..Len(wrappers) : wrappers[v]._response # NoResponse}
    IN IF have = {} THEN NoResponse
       ELSE wrappers[CHOOSE v \in have : \A u \in have : v <= u]._response

\* self._response, as the wrapper reads it
Cached(w) == wrappers[w]._response

\* a plausible slip: the cached response is not consulted
NeedsSend_always(w) == TRUE

\* the null-check of Request.__enter__ and AsyncRequest.__aenter__
NeedsSend(w) == Cached(w) = NoResponse

\* Request.response(): with self, that is Request.__enter__, then the return
Response(w, cap, B) ==
    /\ wrappers[w].kind = "Request"
    /\ Len(calls) < cap
    /\ IF ~NeedsSend(w)
       THEN /\ calls' = Append(calls, Call(w, NextGroup, "done", Ident(Cached(w)), "-"))
            /\ UNCHANGED wrappers
       ELSE IF resources[client].class \notin PoolClasses
       THEN /\ calls' = Append(calls, Call(w, NextGroup, "done", NoRet, "AssertionError"))
            /\ UNCHANGED wrappers
       ELSE \E b \in Transport(client, B) :
              LET k == Len(wrappers[w].sent) + 1
                  r == [owner |-> w, id |-> k, body |-> b, cls |-> wrappers[w].cls]
              IN IF b = "raise"
                 THEN /\ wrappers' = [wrappers EXCEPT ![w].sent =
                                         Append(@, [on |-> client, ok |-> FALSE])]
                      /\ calls' = Append(calls,
                                         Call(w, NextGroup, "done", NoRet, "TransportError"))
                 ELSE /\ wrappers' = [wrappers EXCEPT
                                         ![w].sent = Append(@, [on |-> client, ok |-> TRUE]),
                                         ![w]._response = r]
                      /\ calls' = Append(calls, Call(w, NextGroup, "done", Ident(r), "-"))
    /\ outcome' = Out("response", "-", w,
                      IF calls'[Len(calls')].exc = "-"
                      THEN Ret("response")
                      ELSE Raise(calls'[Len(calls')].exc, "-"))
    /\ UNCHANGED <<routers, merge, scheme, libs, routes, async_scope, verbs, client, resources, ctx>>

(***************************************************************************)
(* The asynchronous request wrapper.                                       *)
(***************************************************************************)
AsyncWrappers == {w \in 1..Len(wrappers) : wrappers[w].kind = "AsyncRequest"}

\* asyncio.gather(*[wrappers[ws[i]].response() : i]), or one awaited
\* response() when ws has a single element: one task per element, in order
RECURSIVE Spawn(_, _, _)
Spawn(cs, ws, g) ==
    IF ws = <<>> THEN cs
    ELSE Spawn(Append(cs,
                      [w |-> Head(ws), g |-> g,
                       after |-> \A c \in 1..Len(cs) : cs[c].w = Head(ws) => cs[c].pc = "done",
                       pc |-> "new", ret |-> NoRet, exc |-> "-"]),
               Tail(ws), g)

Gather(ws, cap) ==
    /\ ws # <<>>
    /\ \A i \in 1..Len(ws) : ws[i] \in AsyncWrappers
    /\ Len(calls) + Len(ws) <= cap
    /\ calls' = Spawn(calls, ws, NextGroup)
    /\ outcome' = Out("gather", "-", 0, Ret("pending"))
    /\ UNCHANGED <<routers, merge, scheme, libs, routes, async_scope, verbs, client, resources, ctx,
                   wrappers>>

Finish(c, ret, exc) == [calls EXCEPT ![c].pc = "done", ![c].ret = ret, ![c].exc = exc]

\* a task runs AsyncRequest.response() up to its first suspension: the
\* null-check of __aenter__, then await self._request.  The event loop starts
\* the tasks in the order they were created.
Start(c) ==
    LET w == calls[c].w
        rq == wrappers[w]._request
    IN /\ calls[c].pc = "new"
       /\ \A d \in 1..(c - 1) : calls[d].pc # "new"
       /\ IF ~NeedsSend(w)
          THEN /\ calls' = Finish(c, Ident(Cached(w)), "-")
               /\ UNCHANGED wrappers
          ELSE IF rq.st = "pending"
          THEN IF resources[rq.session].open
               THEN \* the request coroutine starts and suspends on the network
                    /\ wrappers' = [wrappers EXCEPT
                                       ![w]._request.st = "running",
                                       ![w]._request.awaits = @ + 1,
                                       ![w].sent = Append(@, [on |-> rq.session, ok |-> FALSE])]
                    /\ calls' = [calls EXCEPT ![c].pc = "awaiting"]
               ELSE \* ClientSession._request on a closed session
                    /\ wrappers' = [wrappers EXCEPT
                                       ![w]._request.st = "done",
                                       ![w]._request.result = "raise",
                                       ![w]._request.awaits = @ + 1]
                    /\ calls' = Finish(c, NoRet, "RuntimeError")
          ELSE \* the coroutine is being awaited already, or was awaited before
               /\ wrappers' = [wrappers EXCEPT ![w]._request.awaits = @ + 1]
               /\ calls' = Finish(c, NoRet, "RuntimeError")
       /\ UNCHANGED <<routers, merge, scheme, libs, routes, async_scope, verbs, client, resources, ctx,
                      outcome>>

\* the transport finishes the request of wrapper w; the task awaiting it
\* becomes ready to run
Complete(w, b) ==
    /\ w \in AsyncWrappers
    /\ wrappers[w]._request.st = "running"
    /\ b = "raise" \/ resources[wrappers[w]._request.session].open
    /\ wrappers' = [wrappers EXCEPT
                       ![w]._request.st = "done",
                       ![w]._request.result = b,
                       ![w].sent[Len(wrappers[w].sent)].ok = (b # "raise")]
    /\ calls' = [c \in 1..Len(calls) |->
                    IF calls[c].w = w /\ calls[c].pc = "awaiting"
                    THEN [calls[c] EXCEPT !.pc = "ready"]
                    ELSE calls[c]]
    /\ UNCHANGED <<routers, merge, scheme, libs, routes, async_scope, verbs, client, resources, ctx,
                   outcome>>

\* the task resumes after await self._request: the response is cached, its
\* class swapped and the handler bound, and response() returns it
Resume(c) ==
    LET w == calls[c].w
        b == wrappers[w]._request.result
        r == [owner |-> w, id |-> Len(wrappers[w].sent), body |-> b, cls |-> wrappers[w].cls]
    IN /\ calls[c].pc = "ready"
       /\ IF b = "raise"
          THEN /\ calls' = Finish(c, NoRet, "TransportError")
               /\ UNCHANGED wrappers
          ELSE /\ wrappers' = [wrappers EXCEPT ![w]._response = r]
               /\ calls' = Finish(c, Ident(r), "-")
       /\ UNCHANGED <<routers, merge, scheme, libs, routes, async_scope, verbs, client, resources, ctx,
                      outcome>>

(***************************************************************************)
(* The response's object() accessor.                                       *)
(***************************************************************************)
\* the caller holds the response that call c returned and asks for its object
Object(c, none_error) ==
    /\ calls[c].pc = "done"
    /\ calls[c].ret # NoRet
    /\ outcome' = Out("object", IF none_error THEN "none_error" ELSE "-", calls[c].w,
                      object(libs, Cached(calls[c].w), none_error))
    /\ UNCHANGED <<routers, merge, scheme, libs, routes, async_scope, verbs, client, resources, ctx,
                   wrappers, calls>>

(***************************************************************************)
(* The router: route declaration and router composition.  Path strings are *)
(* sequences of characters here, so that prefix + path is concatenation    *)
(* and the shape of a prefix can be looked at.                             *)
(***************************************************************************)
startswith(str, c) == Len(str) > 0 /\ str[1] = c

endswith(str, c) == Len(str) > 0 /\ str[Len(str)] = c

\* prefix arguments of include_router: "", "/p", "p", "/p/"
Prefixes == {<<>>, <<"/", "p">>, <<"p">>, <<"/", "p", "/">>}

\* prefix arguments of ClientRouter(prefix=...): "", "/v"
RouterPrefixes == {<<>>, <<"/", "v">>}

\* paths given to the declaration decorators: "/a"
DeclaredPaths == {<<"/", "a">>}

\* the router decorators that declare nothing
Unsupported == {"head", "connect"}

\* the decorators called in the model
DeclVerbs == {"get", "head", "connect"}

\* a starlette Route that is no ClientRoute: it has no list_of attribute
Route(path, endpoint, ms) ==
    [path |-> path,
     endpoint |-> endpoint,
     methods |-> ms \cup (IF "GET" \in ms THEN {"HEAD"} ELSE {})]

\* a starlette Mount: it has a path, which may be empty, and no endpoint
Mount(path) == [path |-> path, app |-> "app"]

\* isinstance(route, ClientRoute), isinstance(route, Route)
IsClientRoute(route) == "list_of" \in DOMAIN route

IsRoute(route) == "methods" \in DOMAIN route

\* routes handed to ClientRouter(routes=[...]), which passes them on to Router
InitialRoutes == {Mount(<<>>), Route(<<"/", "a">>, "Plain", {"GET"})}

\* router 0 is the client's own router (ApiQlient.router, prefix ""), the
\* others are routers[r]
Routers == 0..Len(routers)

RoutesOf(r) == IF r = 0 THEN routes ELSE routers[r].routes

PrefixOf(r) == IF r = 0 THEN <<>> ELSE routers[r].prefix

\* the routes held by all the routers together
RECURSIVE Held(_)
Held(r) == IF r = 0 THEN Len(routes) ELSE Len(routers[r].routes) + Held(r - 1)

SetRoutes(r, rs) ==
    /\ routes' = IF r = 0 THEN rs ELSE routes
    /\ routers' = IF r = 0 THEN routers ELSE [routers EXCEPT ![r].routes = rs]

Merge(op, pc, target, source, prefix, i, before) ==
    [op |-> op, pc |-> pc, target |-> target, source |-> source, prefix |-> prefix,
     i |-> i, before |-> before,
     n |-> IF op = "include_router" THEN merge.n + 1 ELSE merge.n]

\* ClientRouter.__init__
NewRouter(prefix, rs, cap, room) ==
    /\ merge.pc # "loop"
    /\ Len(routers) < cap
    /\ Held(Len(routers)) + Len(rs) <= room
    /\ routers' = Append(routers, [prefix |-> prefix, routes |-> rs])
    /\ merge' = Merge("ClientRouter", "done", Len(routers) + 1, Len(routers) + 1, prefix, 0, <<>>)
    /\ outcome' = Out("ClientRouter", "-", 0, Ret("router"))
    /\ UNCHANGED <<scheme, libs, routes, async_scope, verbs, client, resources, ctx,
                   wrappers, calls>>

Added(rs) == [kind |-> "ret", routes |-> rs, exc |-> "-"]

NotAdded(rs, e) == [kind |-> "raise", routes |-> rs, exc |-> e]

\* a plausible slip: the router's own prefix is left out
add_client_route_bare(r, path, endpoint, ms, list_of) ==
    IF ~startswith(path, "/")
    THEN NotAdded(RoutesOf(r), "AssertionError")
    ELSE Added(Append(RoutesOf(r), ClientRoute(path, endpoint, ms, list_of)))

\* ClientRouter.add_client_route on router r: the route's path is the router's
\* own prefix + path; Route.__init__ asserts that it starts with "/"
add_client_route(r, path, endpoint, ms, list_of) ==
    IF ~startswith(PrefixOf(r) \o path, "/")
    THEN NotAdded(RoutesOf(r), "AssertionError")
    ELSE Added(Append(RoutesOf(r), ClientRoute(PrefixOf(r) \o path, endpoint, ms, list_of)))

\* Router.add_route as include_router calls it
add_route(r, path, endpoint, ms) ==
    IF ~startswith(path, "/")
    THEN NotAdded(RoutesOf(r), "AssertionError")
    ELSE Added(Append(RoutesOf(r), Route(path, endpoint, ms)))

\* a plausible slip: every decorator declares
RouterVerb_all(r, m, path, list_of) ==
    add_client_route(r, path, "Plain", {upper(m)}, list_of)

\* @router.<m>(path, list_of) applied to a handler: head and connect raise
\* before a decorator is made, the others go through client_route to
\* add_client_route
RouterVerb(r, m, path, list_of) ==
    IF m \in Unsupported
    THEN NotAdded(RoutesOf(r), "NotImplementedError")
    ELSE add_client_route(r, path, "Plain", {upper(m)}, list_of)

\* a handler is declared on router r with the decorator named m
Declare(r, m, path, list_of, cap) ==
    LET res == RouterVerb(r, m, path, list_of)
    IN /\ merge.pc # "loop"
       /\ Held(Len(routers)) < cap
       /\ SetRoutes(r, res.routes)
       /\ merge' = Merge("declare", IF res.kind = "ret" THEN "done" ELSE "raised",
                         r, r, <<>>, 0, RoutesOf(r))
       /\ outcome' = Out("declare", m, 0,
                         IF res.kind = "ret" THEN Ret("handler") ELSE Raise(res.exc, "-"))
       /\ UNCHANGED <<scheme, libs, async_scope, verbs, client, resources, ctx,
                      wrappers, calls>>

\* a plausible slip: nothing is validated before the merge
Validate_none(rs, prefix) == "ok"

\* the checks that include_router makes before its merge loop
Validate(rs, prefix) ==
    IF prefix # <<>>
    THEN IF ~startswith(prefix, "/") THEN "AssertionError"
         ELSE IF endswith(prefix, "/") THEN "AssertionError"
         ELSE "ok"
    ELSE IF \E k \in 1..Len(rs) : rs[k].path = <<>> THEN "ValueError"
         ELSE "ok"

\* ClientRouter.include_router(router, prefix=prefix) called on router t with
\* router s: the checks, up to the start of the merge loop
IncludeRouter(t, s, prefix, cap, times) ==
    LET v == Validate(RoutesOf(s), prefix)
    IN /\ merge.pc # "loop"
       /\ merge.n < times
       /\ Len(RoutesOf(t)) + Len(RoutesOf(s)) <= cap
       /\ merge' = Merge("include_router", IF v = "ok" THEN "loop" ELSE "raised",
                         t, s, prefix, 1, RoutesOf(t))
       /\ outcome' = Out("include_router", "-", 0,
                         IF v = "ok" THEN Ret("running") ELSE Raise(v, "-"))
       /\ UNCHANGED <<scheme, libs, routes, async_scope, verbs, client, resources, ctx,
                      wrappers, calls, routers>>

\* one round of "for route in router.routes": the list iterator looks at the
\* list as it is now, so routes appended meanwhile are visited too
IncludeStep(cap) ==
    LET t == merge.target
        rs == RoutesOf(merge.source)
    IN /\ merge.pc = "loop"
       /\ IF merge.i > Len(rs)
          THEN /\ merge' = [merge EXCEPT !.pc = "done"]
               /\ outcome' = Out("include_router", "-", 0, Ret("None"))
               /\ UNCHANGED <<routes, routers>>
          ELSE LET route == rs[merge.i]
                   res == IF IsClientRoute(route)
                          THEN add_client_route(t, merge.prefix \o route.path,
                                                route.endpoint, route.methods, route.list_of)
                          ELSE IF IsRoute(route)
                          THEN add_route(t, merge.prefix \o route.path,
                                         route.endpoint, route.methods)
                          ELSE Added(RoutesOf(t))
               IN /\ Len(RoutesOf(t)) <= cap
                  /\ SetRoutes(t, res.routes)
                  /\ IF res.kind = "ret"
                     THEN /\ merge' = [merge EXCEPT !.i = @ + 1]
                          /\ UNCHANGED outcome
                     ELSE /\ merge' = [merge EXCEPT !.pc = "raised"]
                          /\ outcome' = Out("include_router", "-", 0, Raise(res.exc, "-"))
       /\ UNCHANGED <<scheme, libs, async_scope, verbs, client, resources, ctx,
                      wrappers, calls>>

(***************************************************************************)
(* Specification.                                                          *)
(***************************************************************************)
RECURSIVE Groups(_, _)
Groups(S, n) ==
    IF n <= 0 THEN {<<>>}
    ELSE LET shorter == Groups(S, n - 1)
         IN shorter \cup {Append(t, r) : t \in {x \in shorter : Len(x) = n - 1}, r \in S}

AllLibs == [munch |-> TRUE, dataclass_wizard |-> TRUE, pydantic |-> TRUE]

APath == {<<"unknown">>}

AnOption == {{"headers"}}

\* The client's life cycle and its verb methods: every scheme, every verb.
Init == InitWith(Schemes, {AllLibs}, {<<>>})

Next ==
    \/ Enter(MaxActivations)
    \/ Exit
    \/ AEnter(MaxActivations)
    \/ AExit
    \/ \E m \in MethodNames, path \in APath, kw \in Options : Verb(m, path, kw, MaxHeld)

Spec == Init /\ [][Next]_vars

\* Route selection: every table of up to MaxRoutes routes, dispatched in either mode.
InitRoute ==
    InitWith({"http"}, {AllLibs},
             Groups(Declarable(Patterns, {"Dcw", "Plain"}, {"GET", "POST"}), MaxRoutes))

NextRoute ==
    \/ Enter(MaxActivations)
    \/ AEnter(MaxActivations)
    \/ \E m \in {"get", "post", "head"}, path \in Paths, kw \in AnOption :
          Verb(m, path, kw, MaxHeld)

SpecRoute == InitRoute /\ [][NextRoute]_vars

\* The synchronous wrapper: dispatch with get, then response() again and again,
\* across context exits and re-entries in either mode.
InitSync == InitWith(Schemes, {AllLibs}, {<<>>})

NextSync ==
    \/ Enter(MaxActivations)
    \/ Exit
    \/ AEnter(MaxActivations)
    \/ AExit
    \/ \E path \in APath, kw \in AnOption : Verb("get", path, kw, MaxHeld)
    \/ \E w \in 1..Len(wrappers) : Response(w, MaxCalls, {"good"})

SpecSync == InitSync /\ [][NextSync]_vars

\* The asynchronous wrapper: dispatch with get inside an asynchronous context,
\* then response() awaited alone or gathered.
InitAsync == InitWith({"https"}, {AllLibs}, {<<>>})

NextAsync ==
    \/ AEnter(MaxActivations)
    \/ AExit
    \/ \E path \in APath, kw \in AnOption : Verb("get", path, kw, MaxWrappers)
    \/ \E ws \in Groups(AsyncWrappers, MaxCalls - Len(calls)) : Gather(ws, MaxCalls)
    \/ \E c \in 1..Len(calls) : Start(c)
    \/ \E w \in 1..Len(wrappers), b \in {"good", "raise"} : Complete(w, b)
    \/ \E c \in 1..Len(calls) : Resume(c)

SpecAsync == InitAsync /\ [][NextAsync]_vars

\* Object parsing: every set of imported libraries, every body, both modes.
InitObject ==
    InitWith({"http"}, LibSets,
             Groups(Declarable({<<"items", "{id}">>}, Handlers, {"GET"}), 1))

NextObject ==
    \/ Enter(MaxActivations)
    \/ AEnter(MaxActivations)
    \/ \E path \in {<<"items", "1">>, <<"unknown">>}, kw \in AnOption :
          Verb("get", path, kw, MaxHeld)
    \/ \E w \in 1..Len(wrappers) : Response(w, MaxCalls, Bodies)
    \/ \E ws \in Groups(AsyncWrappers, 1) : Gather(ws, MaxCalls)
    \/ \E c \in 1..Len(calls) : Start(c)
    \/ \E w \in 1..Len(wrappers), b \in Bodies \cup {"raise"} : Complete(w, b)
    \/ \E c \in 1..Len(calls) : Resume(c)
    \/ \E c \in 1..Len(calls), none_error \in BOOLEAN : Object(c, none_error)

SpecObject == InitObject /\ [][NextObject]_vars

\* The router: routers are constructed, handlers declared on them, and routers
\* included into one another and into themselves.
InitRouter == InitWith({"http"}, {AllLibs}, {<<>>})

NextRouter ==
    \/ \E prefix \in RouterPrefixes, rs \in Groups(InitialRoutes, MaxRoutes) :
          NewRouter(prefix, rs, MaxRouters, MaxRoutes)
    \/ \E r \in Routers, m \in DeclVerbs, path \in DeclaredPaths, list_of \in BOOLEAN :
          Declare(r, m, path, list_of, MaxRoutes)
    \/ \E t \in Routers, s \in Routers, prefix \in Prefixes :
          IncludeRouter(t, s, prefix, MaxTable, MaxIncludes)
    \/ IncludeStep(MaxTable)

SpecRouter == InitRouter /\ [][NextRouter]_vars

(***************************************************************************)
(* Properties.                                                             *)
(***************************************************************************)
CallsOn(w) == {c \in 1..Len(calls) : calls[c].w = w}

SyncWrappers == {w \in 1..Len(wrappers) : wrappers[w].kind = "Request"}

Least(S) == CHOOSE i \in S : \A j \in S : i <= j

\* C1 as stated: whatever the response accesses made on a synchronous
\* wrapper, once there is at least one the transport request has been invoked
\* exactly once in total, and the accesses yield the cached response.
C1_OnceInTotal ==
    \A w \in SyncWrappers :
        CallsOn(w) # {} =>
            /\ Len(wrappers[w].sent) = 1
            /\ \A c \in CallsOn(w) : calls[c].ret # NoRet => calls[c].ret = Ident(Cached(w))

\* C1 (amended): on a synchronous wrapper an access invokes the transport at
\* most once and only while no response is cached; at most one invocation ever
\* returns a response, it is the last one and its response is the cached one
\* (so the transport is invoked exactly once in total when the first
\* invocation returns a response); every access that returns yields that same
\* cached response.
C1_OncePerCachedResponse ==
    \A w \in SyncWrappers :
        LET s == wrappers[w].sent
        IN /\ Len(s) <= Cardinality(CallsOn(w))
           /\ \A k \in 1..Len(s) : s[k].ok <=> (k = Len(s) /\ Cached(w) # NoResponse)
           /\ Cached(w) # NoResponse => Ident(Cached(w)) = [owner |-> w, id |-> Len(s)]
           /\ (Len(s) >= 1 /\ s[1].ok) => Len(s) = 1
           /\ \A c \in CallsOn(w) : calls[c].ret # NoRet => calls[c].ret = Ident(Cached(w))

\* C1 witness: a synchronous wrapper accessed twice, both accesses returning
\* the response of its single transport call.
C1_Witness ==
    \E w \in SyncWrappers :
        /\ Cardinality(CallsOn(w)) >= 2
        /\ \A c \in CallsOn(w) : calls[c].ret = Ident(Cached(w)) /\ calls[c].ret # NoRet
        /\ Len(wrappers[w].sent) = 1

\* the response() calls on w were made one after another: each when the
\* earlier ones on w had finished
Sequential(w) == \A c \in CallsOn(w) : calls[c].after

DoneOn(w) == {c \in CallsOn(w) : calls[c].pc = "done"}

\* the session that wrapper w was dispatched on is still open
SessionOpen(w) == resources[wrappers[w]._request.session].open

\* C2 as stated: response() awaited two or more times, one after another, on
\* an asynchronous wrapper (its session open throughout) awaits the pending
\* awaitable exactly once, the later awaits returning the cached response.
C2_AwaitedOnce ==
    \A w \in AsyncWrappers :
        (Sequential(w) /\ SessionOpen(w) /\ Cardinality(DoneOn(w)) >= 2) =>
            /\ wrappers[w]._request.awaits = 1
            /\ \A c \in DoneOn(w) :
                  c # Least(CallsOn(w)) =>
                      calls[c].ret # NoRet /\ calls[c].ret = Ident(Cached(w))

\* C2 (amended): response() awaited one after another on an asynchronous
\* wrapper never sends the request twice; when the first await returns a
\* response the pending awaitable is awaited exactly once and every later await
\* returns the cached response; when the first await raises nothing is cached,
\* and every later await awaits the spent awaitable again and raises.
C2_AwaitedOnceAfterSuccess ==
    \A w \in AsyncWrappers :
        (Sequential(w) /\ DoneOn(w) # {}) =>
            LET first == Least(CallsOn(w))
            IN /\ Len(wrappers[w].sent) <= 1
               /\ calls[first].ret # NoRet =>
                     /\ wrappers[w]._request.awaits = 1
                     /\ \A c \in DoneOn(w) :
                           calls[c].ret # NoRet /\ calls[c].ret = Ident(Cached(w))
               /\ calls[first].ret = NoRet =>
                     /\ Cached(w) = NoResponse
                     /\ \A c \in DoneOn(w) : calls[c].ret = NoRet
                     /\ wrappers[w]._request.awaits =
                            Cardinality({c \in CallsOn(w) : calls[c].pc # "new"})

\* C2 witness: an asynchronous wrapper awaited twice in a row, both awaits
\* returning the one response, the awaitable awaited once.
C2_Witness ==
    \E w \in AsyncWrappers :
        /\ Sequential(w)
        /\ Cardinality(DoneOn(w)) >= 2
        /\ \A c \in DoneOn(w) : calls[c].ret # NoRet /\ calls[c].ret = Ident(Cached(w))
        /\ wrappers[w]._request.awaits = 1

\* C3: whatever the interleaving of the response() calls running on one
\* asynchronous wrapper, its pending awaitable is awaited at most once and no
\* call fails, as long as the request itself does not fail.
C3_GuardedUnderConcurrency ==
    \A w \in AsyncWrappers :
        wrappers[w]._request.result # "raise" =>
            /\ wrappers[w]._request.awaits <= 1
            /\ \A c \in DoneOn(w) : calls[c].exc = "-"

Members(g) == {c \in 1..Len(calls) : calls[c].g = g}

GroupIds == {calls[c].g : c \in 1..Len(calls)}

\* the gather g is over wrappers that were not awaited before, each once
Fresh(g) ==
    \A c \in Members(g) : \A d \in CallsOn(calls[c].w) : d = c \/ (d > c /\ calls[d].g # g)

Of(class, w) ==
    {i \in 1..Len(routes) :
        matches(routes[i], upper(wrappers[w]._method), wrappers[w]._url) = class}

\* C5: the handler bound to a wrapper is that of the first FULL match in
\* registration order if there is one, else that of the first PARTIAL match
\* if there is one, else none.
C5_FullBeforePartial ==
    \A w \in 1..Len(wrappers) :
        wrappers[w].cls =
            IF Of("FULL", w) # {} THEN routes[Least(Of("FULL", w))].endpoint
            ELSE IF Of("PARTIAL", w) # {} THEN routes[Least(Of("PARTIAL", w))].endpoint
            ELSE "None"

\* C5 witness: a PARTIAL match registered before a FULL match with another
\* handler, and the wrapper bound to the FULL match's handler.
C5_Witness ==
    \E w \in 1..Len(wrappers) :
        \E i \in Of("PARTIAL", w), j \in Of("FULL", w) :
            /\ i < j
            /\ routes[i].endpoint # routes[j].endpoint
            /\ wrappers[w].cls = routes[j].endpoint

\* C6 as stated: a verb method called on a client that was never entered
\* raises the error that says "not in context".
C6_NeverEnteredNotInContext ==
    (outcome.op = "verb" /\ verbs[outcome.arg] = "class") =>
        /\ outcome.kind = "raise"
        /\ outcome.exc = "NotImplementedError"
        /\ outcome.msg = "Client not in context"

\* C6 (amended): a verb method called on a client that was never entered
\* raises NotImplementedError with the message that points to the router's
\* decorators; only after a context was exited does a verb method raise the
\* NotImplementedError that says "Client not in context".  The class-level
\* methods are in place exactly until the first entry.
C6_NeverEnteredUseRouter ==
    /\ (outcome.op = "verb" /\ verbs[outcome.arg] = "class") =>
          /\ outcome.kind = "raise"
          /\ outcome.exc = "NotImplementedError"
          /\ outcome.msg = "When defining paths use router"
    /\ (outcome.op = "verb" /\ verbs[outcome.arg] = "stub") =>
          /\ outcome.kind = "raise"
          /\ outcome.exc = "NotImplementedError"
          /\ outcome.msg = "Client not in context"
    /\ (\E m \in MethodNames : verbs[m] = "class") =>
          /\ \A m \in MethodNames : verbs[m] = "class"
          /\ ctx = "out" /\ async_scope = "None" /\ resources = <<>>

\* C6 witness: a verb method was called on a client never entered, and raised.
C6_Witness ==
    /\ outcome.op = "verb"
    /\ verbs[outcome.arg] = "class"
    /\ outcome.kind = "raise"
    /\ resources = <<>>

\* C7: after every exit, each of the nine verb methods is a stub.
C7_StubsAfterExit ==
    outcome.op \in {"__exit__", "__aexit__"} => \A m \in MethodNames : verbs[m] = "stub"

\* C8: a verb method invoked inside an active context returns a request
\* wrapper and never raises (keyword options that are passed through).
C8_DispatchNeverRaises ==
    (outcome.op = "verb" /\ ctx # "out" /\ outcome.msg # "multiple values") =>
        outcome.kind = "ret"

NoMatch(w) == Of("FULL", w) = {} /\ Of("PARTIAL", w) = {}

\* C9 as stated: object() on the response of a wrapper dispatched with no
\* matching route returns the generic mapping-like value built from the JSON body.
C9_MissFallsBack ==
    (/\ outcome.op = "object"
     /\ NoMatch(outcome.on)
     /\ Cached(outcome.on).body # "notjson") =>
        outcome.kind = "ret" /\ outcome.val = "munchify"

\* C9 (amended): a routing miss is no error of its own: a wrapper dispatched
\* for a (method, path) that no route matches carries a null handler; object()
\* on its response, the body being JSON, returns the generic mapping-like value
\* when munch is imported, and raises ValueError when it is not.
C9_MissFallsBackWithMunch ==
    /\ \A w \in 1..Len(wrappers) : NoMatch(w) => wrappers[w].cls = "None"
    /\ (/\ outcome.op = "object"
        /\ NoMatch(outcome.on)
        /\ Cached(outcome.on).body # "notjson") =>
           IF libs.munch
           THEN outcome.kind = "ret" /\ outcome.val = "munchify"
           ELSE outcome.kind = "raise" /\ outcome.exc = "ValueError"

\* C9 witness: with routes declared, a dispatch that none of them matches, and
\* object() on its response returning the generic value.
C9_Witness ==
    /\ routes # <<>>
    /\ outcome.op = "object"
    /\ NoMatch(outcome.on)
    /\ wrappers[outcome.on].cls = "None"
    /\ outcome.val = "munchify"

RECURSIVE Merged(_, _, _)
Merged(rs, prefix, own) ==
    IF rs = <<>> THEN <<>>
    ELSE LET r == Head(rs)
             rest == Merged(Tail(rs), prefix, own)
         IN IF IsClientRoute(r)
            THEN <<[path |-> own \o prefix \o r.path, endpoint |-> r.endpoint,
                    methods |-> r.methods, list_of |-> r.list_of]>> \o rest
            ELSE IF IsRoute(r)
            THEN <<[path |-> prefix \o r.path, endpoint |-> r.endpoint,
                    methods |-> r.methods]>> \o rest
            ELSE rest

\* the source routes that the merge loop has been through
Visited == SubSeq(RoutesOf(merge.source), 1, merge.i - 1)

Merging == merge.op = "include_router" /\ merge.pc \in {"loop", "done"}

\* C11 as stated: a route merged by include_router(other, prefix) has the
\* path prefix + its path in the source, whatever the target router, and the
\* source route's handler, methods and list_of flag.
C11_PrefixPlusPath ==
    Merging =>
        RoutesOf(merge.target) = merge.before \o Merged(Visited, merge.prefix, <<>>)

\* C11 (amended): a ClientRoute merged by include_router(other, prefix) has the
\* path (target router's own prefix) + prefix + its path in the source, which is
\* prefix + path when the target's own prefix is empty, as for a client's
\* router; it keeps the source route's handler, methods and list_of flag, and
\* the routes are appended in the source's order.
C11_OwnPrefixPlusPrefixPlusPath ==
    Merging =>
        RoutesOf(merge.target) =
            merge.before \o Merged(Visited, merge.prefix, PrefixOf(merge.target))

\* C11 witness: a router with a ClientRoute flagged list_of was merged, under a
\* non-empty prefix, into another router that has a prefix of its own.
C11_Witness ==
    /\ merge.op = "include_router"
    /\ merge.pc = "done"
    /\ merge.target # merge.source
    /\ merge.prefix # <<>>
    /\ PrefixOf(merge.target) # <<>>
    /\ \E k \in 1..Len(RoutesOf(merge.source)) :
          /\ IsClientRoute(RoutesOf(merge.source)[k])
          /\ RoutesOf(merge.source)[k].list_of
    /\ Len(RoutesOf(merge.target)) > Len(merge.before)

\* the source's routes as they were when include_router was called
SourceAtCall ==
    IF merge.source = merge.target THEN merge.before ELSE RoutesOf(merge.source)

InvalidPrefix(prefix) == prefix # <<>> /\ (~startswith(prefix, "/") \/ endswith(prefix, "/"))

EmptyBoth(prefix, rs) == prefix = <<>> /\ \E k \in 1..Len(rs) : rs[k].path = <<>>

\* C12: include_router with a non-empty prefix that does not start with "/" or
\* that ends with "/", or with an empty prefix while a source route has an
\* empty path, raises a configuration error before anything is merged: the
\* target's routes are what they were before the call.
C12_RejectedBeforeMerge ==
    (/\ merge.op = "include_router"
     /\ InvalidPrefix(merge.prefix) \/ EmptyBoth(merge.prefix, SourceAtCall)) =>
        /\ merge.pc = "raised"
        /\ merge.i = 1
        /\ outcome.op = "include_router"
        /\ outcome.kind = "raise"
        /\ outcome.exc \in {"AssertionError", "ValueError"}
        /\ RoutesOf(merge.target) = merge.before

\* C12 witness: an include with an empty prefix was rejected because of the
\* source's second entry, whose path is empty, the first being a route that
\* could have been merged.
C12_Witness ==
    /\ merge.op = "include_router"
    /\ merge.pc = "raised"
    /\ merge.prefix = <<>>
    /\ Len(SourceAtCall) >= 2
    /\ IsRoute(SourceAtCall[1])
    /\ SourceAtCall[2].path = <<>>
    /\ outcome.exc = "ValueError"
    /\ RoutesOf(merge.target) = merge.before

\* C13: the head and the connect decorator raise NotImplementedError and
\* declare nothing: the router's routes are what they were before the call.
C13_HeadConnectDeclareNothing ==
    (outcome.op = "declare" /\ outcome.arg \in Unsupported) =>
        /\ outcome.kind = "raise"
        /\ outcome.exc = "NotImplementedError"
        /\ merge.op = "declare"
        /\ merge.pc = "raised"
        /\ RoutesOf(merge.target) = merge.before

\* C13 witness: the head decorator was called on a router that holds a route,
\* and raised.
C13_Witness ==
    /\ outcome.op = "declare"
    /\ outcome.arg = "head"
    /\ outcome.kind = "raise"
    /\ RoutesOf(merge.target) # <<>>

\* C20: an include_router call adds at most one route to the target per route
\* that the source held when it was called, the source being the target itself
\* or not.
C20_AtMostOnePerSourceRoute ==
    Merging =>
        Len(RoutesOf(merge.target)) - Len(merge.before) <= Len(SourceAtCall)

\* the builder that the handler type cls calls for: from_dict for a
\* dataclass_wizard type, parse_obj for a pydantic model, else the constructor
BuilderOf(cls) ==
    CASE cls = "Dcw" -> "from_dict"
      [] cls = "Pyd" -> "parse_obj"
      [] OTHER -> "cls"

\* C14: with a handler bound to the response and a body the handler accepts,
\* object() returns what the handler's from_dict builds if it has one, else
\* what its parse_obj builds if it has one, else what its constructor builds,
\* whichever optional libraries are imported; never the generic value.
C14_HandlerBuilds ==
    (/\ outcome.op = "object"
     /\ wrappers[outcome.on].cls # "None"
     /\ Cached(outcome.on).body = "good") =>
        /\ outcome.kind = "ret"
        /\ outcome.val = BuilderOf(wrappers[outcome.on].cls)

\* C15: when building the object raises E and none_error is false, object()
\* raises an exception of E's type whose message names the URL.
C15_SameTypeReraised ==
    (/\ outcome.op = "object"
     /\ outcome.arg = "-"
     /\ Cached(outcome.on).body # "notjson"
     /\ Attempt(libs, Cached(outcome.on).body, wrappers[outcome.on].cls).kind = "raise") =>
        /\ outcome.kind = "raise"
        /\ outcome.exc = Attempt(libs, Cached(outcome.on).body, wrappers[outcome.on].cls).exc
        /\ outcome.msg = "Error trying to retrieve url"

OpenResources == {rid \in 1..Len(resources) : resources[rid].open}

\* C16: inside a with-block the client holds exactly one open resource, the
\* only one that is open: a session in an asynchronous block, a pool in a
\* synchronous one, plain for http and encrypted for https; outside none is open.
C16_OneResourcePerActivation ==
    /\ ctx = "out" => OpenResources = {}
    /\ ctx # "out" =>
          /\ client # 0
          /\ OpenResources = {client}
          /\ ctx = "async" => resources[client].class = "ClientSession"
          /\ ctx = "sync" =>
                /\ resources[client].class \in PoolClasses
                /\ scheme = "http" => resources[client].class = "HTTPConnectionPool"
                /\ scheme = "https" => resources[client].class = "HTTPSConnectionPool"

\* the response() invocations on wrapper w that have begun to run
Begun(w) == {c \in CallsOn(w) : calls[c].pc # "new"}

\* C17: dispatch performs no transport call: a wrapper has at most as many
\* transport calls as response accesses that have begun, so none before its
\* first access and none when it is never accessed; until then the request of
\* an asynchronous wrapper is pending, not started.
C17_NoTransportBeforeAccess ==
    \A w \in 1..Len(wrappers) :
        /\ Len(wrappers[w].sent) <= Cardinality(Begun(w))
        /\ Begun(w) = {} =>
              /\ wrappers[w].sent = <<>>
              /\ Cached(w) = NoResponse
              /\ wrappers[w].kind = "AsyncRequest" =>
                    /\ wrappers[w]._request.st = "pending"
                    /\ wrappers[w]._request.awaits = 0

\* C17 witness: an asynchronous wrapper was dispatched and its response()
\* gathered, but the call has not begun to run: nothing was sent, the request
\* is still pending.
C17_Witness ==
    \E w \in AsyncWrappers :
        /\ CallsOn(w) # {}
        /\ Begun(w) = {}
        /\ wrappers[w].sent = <<>>
        /\ wrappers[w]._request.st = "pending"

\* C18: the verb methods dispatch (async_scope is not None) only while the
\* client holds an open resource of the matching mode.
C18_DispatchOnlyWithResource ==
    (async_scope # "None" \/ \E m \in MethodNames : verbs[m] = "dispatch") =>
        /\ client # 0
        /\ resources[client].open
        /\ async_scope = "True" <=> resources[client].class = "ClientSession"

\* C19: every transport call of a wrapper is made on the resource that was
\* the client's when the wrapper was dispatched.
C19_SendsOnOwnActivation ==
    \A w \in 1..Len(wrappers) :
        \A k \in 1..Len(wrappers[w].sent) : wrappers[w].sent[k].on = wrappers[w].at
====
